---- MODULE Spec2Model ----
(***************************************************************************)
(* A model of livekit.agents.tokenize.token_stream.BufferedTokenStream:    *)
(* the retained buffer, the re-tokenization loop of push_text, flush,      *)
(* end_input, aclose and the consumer side (__anext__) over the event      *)
(* channel.                                                                *)
(*                                                                         *)
(* A Python str is a sequence of one-character strings.  A token is a      *)
(* record: [tuple |-> FALSE, text] for a bare str, and                     *)
(* [tuple |-> TRUE, text, start, end] for a (text, start, end) tuple.      *)
(***************************************************************************)
EXTENDS Integers, Sequences, FiniteSets, TLC

\* ------------------------------------------------------------------ bounds
\* Total number of characters the producer pushes while the stream is open,
\* with a consumer pulling concurrently (Spec, FairSpec).
MaxLen == 3
\* The same total for the producer running alone (ProducerSpec).
MaxText == 5
\* The same total for the producer running alone on long texts (LongSpec).
MaxLong == 7
\* min_token_len is drawn from 1..MaxMinTokenLen at construction.
MaxMinTokenLen == 2
\* min_ctx_len is drawn from 1..MaxMinCtxLen at construction.
MaxMinCtxLen == 2
\* The number of events sent after which the producer of MixedSpec stops.
MaxSent == 4

\* The characters of the pushed text; " " is the only whitespace character.
Chars == {"a", " "}

\* The two token forms of TokenizeCallable.
Forms == {"bare", "offsets"}

VARIABLES
    buf,            \* self._buf
    seg,            \* self._current_segment_id
    queue,          \* self._event_ch: the events sent and not yet received
    closed,         \* self._event_ch.closed
    min_token_len,  \* self._min_token_len
    min_ctx_len,    \* self._min_ctx_len
    form,           \* the form of the tokens self._tokenize_fnc returns
    call,           \* the producer's last call: its name, outcome and emissions
    emitted,        \* every event sent so far, in order, with how it was sent
    pushed,         \* the text accepted by push_text so far, concatenated
    flushed,        \* flush() was called directly on the open stream
    since,          \* a flush call completed since the last event was sent
    received,       \* the events the consumer has received, in order
    consumer        \* "running", or "stopped" after StopAsyncIteration

vars == <<buf, seg, queue, closed, min_token_len, min_ctx_len, form, call,
          emitted, pushed, flushed, since, received, consumer>>

\* ------------------------------------------------------- Python str helpers
IsSpace(c) == c = " "

Min(S) == CHOOSE x \in S : \A y \in S : x <= y

Max2(a, b) == IF a >= b THEN a ELSE b

\* s[k:] for k >= 0
Drop(s, k) == IF k >= Len(s) THEN <<>> ELSE SubSeq(s, k + 1, Len(s))

\* s.lstrip()
LStrip(s) ==
    LET idx == {i \in 1..Len(s) : ~IsSpace(s[i])}
    IN  IF idx = {} THEN <<>> ELSE SubSeq(s, Min(idx), Len(s))

\* s.find(t): the lowest 0-based index where t occurs in s, or -1
Find(s, t) ==
    LET idx == {i \in 0..(Len(s) - Len(t)) : SubSeq(s, i + 1, i + Len(t)) = t}
    IN  IF idx = {} THEN -1 ELSE Min(idx)

\* " ".join(list)
RECURSIVE JoinSp(_)
JoinSp(list) ==
    IF list = <<>> THEN <<>>
    ELSE IF Len(list) = 1 THEN list[1]
    ELSE list[1] \o <<" ">> \o JoinSp(Tail(list))

\* All strings over Chars of length 0..n
RECURSIVE Strings(_)
Strings(n) ==
    IF n = 0 THEN {<<>>}
    ELSE LET shorter == Strings(n - 1)
         IN  shorter \cup {Append(s, c) : s \in {t \in shorter : Len(t) = n - 1}, c \in Chars}

\* ---------------------------------------------------------------- tokenizer
\* The end offset of the word that starts at 0-based offset i of s.
WordEnd(s, i) ==
    Min({j \in (i + 1)..Len(s) : j = Len(s) \/ IsSpace(s[j + 1])})

\* The words of s from 0-based offset i on, split on whitespace, with offsets.
RECURSIVE SplitWords(_, _)
SplitWords(s, i) ==
    IF i >= Len(s) THEN <<>>
    ELSE IF IsSpace(s[i + 1]) THEN SplitWords(s, i + 1)
    ELSE LET e == WordEnd(s, i)
         IN  <<[tuple |-> TRUE, text |-> SubSeq(s, i + 1, e), start |-> i, end |-> e]>>
                 \o SplitWords(s, e)

Bare(tok) == [tuple |-> FALSE, text |-> tok.text]

\* Tokenizers whose result list alternates the two token forms.
MixedForms == {"bare_first", "offsets_first"}

\* A tokenizer that returns bare text in upper case: its tokens do not occur
\* in the text it was given.
Upper(text) == [i \in 1..Len(text) |-> IF text[i] = "a" THEN "A" ELSE text[i]]

\* self._tokenize_fnc(s) for a tokenizer of form f
Tokenize(f, s) ==
    LET words == SplitWords(s, 0)
    IN  IF f = "offsets" THEN words
        ELSE IF f = "bare" THEN [i \in 1..Len(words) |-> Bare(words[i])]
        ELSE IF f = "upper"
        THEN [i \in 1..Len(words) |-> [tuple |-> FALSE, text |-> Upper(words[i].text)]]
        ELSE [i \in 1..Len(words) |->
                 IF (i % 2 = 1) = (f = "bare_first") THEN Bare(words[i])
                 ELSE words[i]]

\* The texts of a token list
Texts(tokens) == [i \in 1..Len(tokens) |-> tokens[i].text]

\* -------------------------------------------------------------- event channel
\* Chan.send_nowait(ev) on an unbounded channel: ev joins the end of the queue.
SendNowait(q, ev) == Append(q, ev)

RECURSIVE SendAll(_, _)
SendAll(q, evs) ==
    IF evs = <<>> THEN q ELSE SendAll(SendNowait(q, Head(evs)), Tail(evs))

\* Chan.__anext__() with an item queued: the oldest item, and the queue left.
ChanNext(q) == [item |-> Head(q), rest |-> Tail(q)]

\* Chan.__anext__() raises StopAsyncIteration: closed and drained.
ChanExhausted(q, isClosed) == isClosed /\ q = <<>>

\* ------------------------------------------------------------------ push_text
\* _check_not_closed raises RuntimeError
CheckNotClosedRaises_Never == FALSE

CheckNotClosedRaises == closed

\* push_text without the min_ctx_len test: the buffer is always tokenized
CtxTooShort_Never(b) == FALSE

\* if len(self._buf) < self._min_ctx_len: return
CtxTooShort(b) == Len(b) < min_ctx_len

\* while len(tokens) > 0: the loop also pops the last token
LoopContinues_ToLast(tokens) == Len(tokens) > 0

\* while len(tokens) > 1
LoopContinues(tokens) == Len(tokens) > 1

\* if len(buf) >= self._min_ctx_len: the wrong threshold
Emittable_Ctx(acc) == Len(acc) >= min_ctx_len

\* if len(buf) >= self._min_token_len
Emittable(acc) == Len(acc) >= min_token_len

\* self._buf.find(tok) raises TypeError for some tok of buf_toks: str.find
\* takes a str, and an offset-bearing token is a tuple.
FindRaises(toks) == \E i \in 1..Len(toks) : toks[i].tuple

\* The relocation loop using the result of find as it is, -1 on a miss
RECURSIVE Relocate_NoMax(_, _)
Relocate_NoMax(b, toks) ==
    IF toks = <<>> THEN b
    ELSE IF Head(toks).tuple THEN b
    ELSE LET t     == Head(toks).text
             tok_i == Find(b, t)
         IN  Relocate_NoMax(LStrip(Drop(b, tok_i + Len(t))), Tail(toks))

\* The relocation loop without .lstrip()
RECURSIVE Relocate_NoStrip(_, _)
Relocate_NoStrip(b, toks) ==
    IF toks = <<>> THEN b
    ELSE IF Head(toks).tuple THEN b
    ELSE LET t     == Head(toks).text
             tok_i == Max2(Find(b, t), 0)
         IN  Relocate_NoStrip(Drop(b, tok_i + Len(t)), Tail(toks))

\* for tok in buf_toks: tok_i = max(self._buf.find(tok), 0);
\*                      self._buf = self._buf[tok_i + len(tok):].lstrip()
\* The loop stops at the first token for which find raises.
RECURSIVE Relocate(_, _)
Relocate(b, toks) ==
    IF toks = <<>> THEN b
    ELSE IF Head(toks).tuple THEN b
    ELSE LET t     == Head(toks).text
             tok_i == Max2(Find(b, t), 0)
         IN  Relocate(LStrip(Drop(b, tok_i + Len(t))), Tail(toks))

\* Advancement that searches for every token, offsets or not
Advance_AlwaysFind(b, tok, toks) ==
    Relocate(b, [i \in 1..Len(toks) |-> Bare(toks[i])])

\* The retained buffer after an emission whose last token is tok and whose
\* accumulated tokens are toks.
Advance(b, tok, toks) ==
    IF tok.tuple THEN Drop(b, tok.end) ELSE Relocate(b, toks)

\* The emission whose last token is tok ends push_text with a TypeError.
AdvanceRaises(tok, toks) == ~tok.tuple /\ FindRaises(toks)

\* The loop of push_text over the token list of one tokenization.
\*   tokens: the tokens not yet popped;   n: the number of tokens popped
\*   acc, toks: the locals buf and buf_toks;   b: self._buf
\*   snaps: one record per emission made so far in this call
RECURSIVE PushLoop(_, _, _, _, _, _)
PushLoop(tokens, n, acc, toks, b, snaps) ==
    IF ~LoopContinues(tokens) THEN [buf |-> b, snaps |-> snaps, err |-> "ok"]
    ELSE LET tok   == Head(tokens)
             acc1  == IF acc # <<>> THEN acc \o <<" ">> ELSE acc
             acc2  == acc1 \o tok.text
             toks2 == Append(toks, tok)
         IN  IF Emittable(acc2)
             THEN LET b2     == Advance(b, tok, toks2)
                      snaps2 == Append(snaps, [text |-> acc2, upto |-> n + 1,
                                               last |-> tok, after |-> b2])
                  IN  IF AdvanceRaises(tok, toks2)
                      THEN [buf |-> b2, snaps |-> snaps2, err |-> "TypeError"]
                      ELSE PushLoop(Tail(tokens), n + 1, <<>>, <<>>, b2, snaps2)
             ELSE PushLoop(Tail(tokens), n + 1, acc2, toks2, b, snaps)

\* TokenData(token=..., segment_id=self._current_segment_id)
TokenData(text, id) == [token |-> text, segment_id |-> id]

\* shortuuid(): an identifier never produced before (identifiers are numbered
\* in the order they are generated)
ShortUuid(id) == id + 1

\* The record of one push-path or flush-path send, kept in emitted.
Sent(text, id, by, afterFlush) ==
    [ev |-> TokenData(text, id), by |-> by, afterFlush |-> afterFlush]

\* The entries of emitted for the emissions snaps of one call.
SentBy(snaps, id, by, afterFlush) ==
    [i \in 1..Len(snaps) |-> Sent(snaps[i].text, id, by, afterFlush /\ i = 1)]

Events(sent) == [i \in 1..Len(sent) |-> sent[i].ev]

\* The record of a producer call that failed in _check_not_closed.
Rejected(op) ==
    [op |-> op, result |-> "RuntimeError", src |-> <<>>, tokenized |-> FALSE,
     tokens |-> <<>>, snaps |-> <<>>]

Done(op, src, tokenized, tokens, snaps) ==
    [op |-> op, result |-> "ok", src |-> src, tokenized |-> tokenized,
     tokens |-> tokens, snaps |-> snaps]

\* The record of a producer call that a TypeError ended.
Failed(op, src, tokens, snaps) ==
    [op |-> op, result |-> "TypeError", src |-> src, tokenized |-> TRUE,
     tokens |-> tokens, snaps |-> snaps]

\* push_text appending the text before the closed check
PushText_CheckLate(text) ==
    IF CheckNotClosedRaises
    THEN /\ call' = Rejected("push_text")
         /\ buf' = buf \o text
         /\ UNCHANGED <<seg, queue, closed, min_token_len, min_ctx_len, form,
                        emitted, pushed, flushed, since, received, consumer>>
    ELSE /\ pushed' = pushed \o text
         /\ LET b == buf \o text
            IN  IF CtxTooShort(b)
                THEN /\ buf' = b
                     /\ call' = Done("push_text", b, FALSE, <<>>, <<>>)
                     /\ UNCHANGED <<queue, emitted, since>>
                ELSE LET tokens == Tokenize(form, b)
                         r      == PushLoop(tokens, 0, <<>>, <<>>, b, <<>>)
                         sent   == SentBy(r.snaps, seg, "push_text", since)
                     IN  /\ buf' = r.buf
                         /\ queue' = SendAll(queue, Events(sent))
                         /\ emitted' = emitted \o sent
                         /\ since' = (since /\ sent = <<>>)
                         /\ call' = IF r.err = "ok"
                                    THEN Done("push_text", b, TRUE, tokens, r.snaps)
                                    ELSE Failed("push_text", b, tokens, r.snaps)
         /\ UNCHANGED <<seg, closed, min_token_len, min_ctx_len, form, flushed,
                        received, consumer>>

PushText(text) ==
    IF CheckNotClosedRaises
    THEN /\ call' = Rejected("push_text")
         /\ UNCHANGED <<buf, seg, queue, closed, min_token_len, min_ctx_len, form,
                        emitted, pushed, flushed, since, received, consumer>>
    ELSE /\ pushed' = pushed \o text
         /\ LET b == buf \o text
            IN  IF CtxTooShort(b)
                THEN /\ buf' = b
                     /\ call' = Done("push_text", b, FALSE, <<>>, <<>>)
                     /\ UNCHANGED <<queue, emitted, since>>
                ELSE LET tokens == Tokenize(form, b)
                         r      == PushLoop(tokens, 0, <<>>, <<>>, b, <<>>)
                         sent   == SentBy(r.snaps, seg, "push_text", since)
                     IN  /\ buf' = r.buf
                         /\ queue' = SendAll(queue, Events(sent))
                         /\ emitted' = emitted \o sent
                         /\ since' = (since /\ sent = <<>>)
                         /\ call' = IF r.err = "ok"
                                    THEN Done("push_text", b, TRUE, tokens, r.snaps)
                                    ELSE Failed("push_text", b, tokens, r.snaps)
         /\ UNCHANGED <<seg, closed, min_token_len, min_ctx_len, form, flushed,
                        received, consumer>>

\* ---------------------------------------------------------------------- flush
\* flush withholding the last token, as push_text does
FlushText_Withhold(b) ==
    LET tokens == Tokenize(form, b)
    IN  IF Len(tokens) > 1 THEN JoinSp(Texts(SubSeq(tokens, 1, Len(tokens) - 1)))
        ELSE b

\* [tok[0] for tok in tokens]: the text of an offset-bearing token, the first
\* character of a bare-text token
Firsts(tokens) ==
    [i \in 1..Len(tokens) |->
        IF tokens[i].tuple THEN tokens[i].text ELSE <<tokens[i].text[1]>>]

\* " ".join(tokens) raises TypeError: the first token is bare text and some
\* token is a tuple.
JoinRaises(tokens) ==
    /\ tokens # <<>>
    /\ ~tokens[1].tuple
    /\ \E i \in 1..Len(tokens) : tokens[i].tuple

\* The token text flush sends for the non-empty buffer b.
FlushText(b) ==
    LET tokens == Tokenize(form, b)
    IN  IF tokens # <<>>
        THEN IF tokens[1].tuple THEN JoinSp(Firsts(tokens))
             ELSE JoinSp(Texts(tokens))
        ELSE b

\* flush() fails with a TypeError before anything is sent or assigned.
FlushRaises == buf # <<>> /\ JoinRaises(Tokenize(form, buf))

FlushFails(op) ==
    /\ call' = Failed(op, buf, Tokenize(form, buf), <<>>)
    /\ UNCHANGED <<buf, seg, queue, closed, min_token_len, min_ctx_len, form,
                   emitted, pushed, flushed, since, received, consumer>>

\* flush() generating a new segment id outside the `if self._buf:` block
FlushOpen_Rotate(op) ==
    /\ IF buf # <<>>
       THEN LET text == FlushText(buf)
                sent == Sent(text, seg, "flush", since)
            IN  /\ queue' = SendNowait(queue, sent.ev)
                /\ emitted' = Append(emitted, sent)
                /\ call' = Done(op, buf, TRUE, Tokenize(form, buf),
                                <<[text |-> text]>>)
       ELSE /\ UNCHANGED <<queue, emitted>>
            /\ call' = Done(op, buf, FALSE, <<>>, <<>>)
    /\ seg' = ShortUuid(seg)
    /\ buf' = <<>>
    /\ since' = TRUE

\* flush() that never generates a new segment id
FlushOpen_KeepId(op) ==
    /\ IF buf # <<>>
       THEN LET text == FlushText(buf)
                sent == Sent(text, seg, "flush", since)
            IN  /\ queue' = SendNowait(queue, sent.ev)
                /\ emitted' = Append(emitted, sent)
                /\ call' = Done(op, buf, TRUE, Tokenize(form, buf),
                                <<[text |-> text]>>)
       ELSE /\ UNCHANGED <<queue, emitted>>
            /\ call' = Done(op, buf, FALSE, <<>>, <<>>)
    /\ UNCHANGED seg
    /\ buf' = <<>>
    /\ since' = TRUE

\* The body of flush() on an open stream; op is the call that runs it.
FlushOpen(op) ==
    /\ IF buf # <<>>
       THEN LET text == FlushText(buf)
                sent == Sent(text, seg, "flush", since)
            IN  /\ queue' = SendNowait(queue, sent.ev)
                /\ emitted' = Append(emitted, sent)
                /\ seg' = ShortUuid(seg)
                /\ call' = Done(op, buf, TRUE, Tokenize(form, buf),
                                <<[text |-> text]>>)
       ELSE /\ UNCHANGED <<queue, emitted, seg>>
            /\ call' = Done(op, buf, FALSE, <<>>, <<>>)
    /\ buf' = <<>>
    /\ since' = TRUE

Flush ==
    IF CheckNotClosedRaises
    THEN /\ call' = Rejected("flush")
         /\ UNCHANGED <<buf, seg, queue, closed, min_token_len, min_ctx_len, form,
                        emitted, pushed, flushed, since, received, consumer>>
    ELSE IF FlushRaises THEN FlushFails("flush")
    ELSE /\ FlushOpen("flush")
         /\ flushed' = TRUE
         /\ UNCHANGED <<closed, min_token_len, min_ctx_len, form, pushed,
                        received, consumer>>

\* ------------------------------------------------------------------ end_input
\* end_input() that flushes and forgets to close the channel
EndInput_NoClose ==
    IF CheckNotClosedRaises
    THEN /\ call' = Rejected("end_input")
         /\ UNCHANGED <<buf, seg, queue, closed, min_token_len, min_ctx_len, form,
                        emitted, pushed, flushed, since, received, consumer>>
    ELSE /\ FlushOpen("end_input")
         /\ UNCHANGED <<closed, min_token_len, min_ctx_len, form, pushed, flushed,
                        received, consumer>>

\* end_input() that returns silently when the stream is already closed
EndInput_Silent ==
    IF CheckNotClosedRaises
    THEN /\ call' = Done("end_input", <<>>, FALSE, <<>>, <<>>)
         /\ UNCHANGED <<buf, seg, queue, closed, min_token_len, min_ctx_len, form,
                        emitted, pushed, flushed, since, received, consumer>>
    ELSE IF FlushRaises THEN FlushFails("end_input")
    ELSE /\ FlushOpen("end_input")
         /\ closed' = TRUE
         /\ UNCHANGED <<min_token_len, min_ctx_len, form, pushed, flushed,
                        received, consumer>>

EndInput ==
    IF CheckNotClosedRaises
    THEN /\ call' = Rejected("end_input")
         /\ UNCHANGED <<buf, seg, queue, closed, min_token_len, min_ctx_len, form,
                        emitted, pushed, flushed, since, received, consumer>>
    ELSE IF FlushRaises THEN FlushFails("end_input")
    ELSE /\ FlushOpen("end_input")
         /\ closed' = TRUE
         /\ UNCHANGED <<min_token_len, min_ctx_len, form, pushed, flushed,
                        received, consumer>>

\* --------------------------------------------------------------------- aclose
\* aclose() that flushes the retained buffer before closing, as end_input does
Aclose_Flush ==
    IF closed
    THEN /\ call' = Done("aclose", <<>>, FALSE, <<>>, <<>>)
         /\ UNCHANGED <<buf, seg, queue, closed, min_token_len, min_ctx_len, form,
                        emitted, pushed, flushed, since, received, consumer>>
    ELSE /\ FlushOpen("aclose")
         /\ closed' = TRUE
         /\ UNCHANGED <<min_token_len, min_ctx_len, form, pushed, flushed,
                        received, consumer>>

\* aclose() that does not close the channel
Aclose_Noop ==
    /\ call' = Done("aclose", <<>>, FALSE, <<>>, <<>>)
    /\ UNCHANGED <<buf, seg, queue, closed, min_token_len, min_ctx_len, form,
                   emitted, pushed, flushed, since, received, consumer>>

Aclose ==
    /\ closed' = TRUE
    /\ call' = Done("aclose", <<>>, FALSE, <<>>, <<>>)
    /\ UNCHANGED <<buf, seg, queue, min_token_len, min_ctx_len, form, emitted,
                   pushed, flushed, since, received, consumer>>

\* ------------------------------------------------------------------ __anext__
\* __anext__ returning the oldest event without taking it off the channel
Anext_Peek ==
    /\ consumer = "running"
    /\ \/ /\ queue # <<>>
          /\ received' = Append(received, ChanNext(queue).item)
          /\ UNCHANGED <<queue, consumer>>
       \/ /\ ChanExhausted(queue, closed)
          /\ consumer' = "stopped"
          /\ UNCHANGED <<queue, received>>
    /\ UNCHANGED <<buf, seg, closed, min_token_len, min_ctx_len, form, call,
                   emitted, pushed, flushed, since>>

\* The pull completes when an event is queued or the channel is closed and
\* drained; it stays suspended while the channel is open and empty.
Anext ==
    /\ consumer = "running"
    /\ \/ /\ queue # <<>>
          /\ received' = Append(received, ChanNext(queue).item)
          /\ queue' = ChanNext(queue).rest
          /\ UNCHANGED consumer
       \/ /\ ChanExhausted(queue, closed)
          /\ consumer' = "stopped"
          /\ UNCHANGED <<queue, received>>
    /\ UNCHANGED <<buf, seg, closed, min_token_len, min_ctx_len, form, call,
                   emitted, pushed, flushed, since>>

\* -------------------------------------------------------------- specification
Init ==
    /\ buf = <<>>
    /\ seg = 0
    /\ queue = <<>>
    /\ closed = FALSE
    /\ min_token_len \in 1..MaxMinTokenLen
    /\ min_ctx_len \in 1..MaxMinCtxLen
    /\ form \in Forms
    /\ call = Done("init", <<>>, FALSE, <<>>, <<>>)
    /\ emitted = <<>>
    /\ pushed = <<>>
    /\ flushed = FALSE
    /\ since = FALSE
    /\ received = <<>>
    /\ consumer = "running"

\* The chunks a producer may still push when at most n characters in all are
\* pushed on the open stream.
AllStrings == Strings(Max2(MaxLen, Max2(MaxText, MaxLong)))

StringsUpTo == [n \in 0..Max2(MaxLen, Max2(MaxText, MaxLong)) |->
                    {t \in AllStrings : Len(t) <= n}]

Chunks(n) == StringsUpTo[Max2(n - Len(pushed), 0)]

\* A producer and a consumer running concurrently.
Next ==
    \/ \E text \in Chunks(MaxLen) : PushText(text)
    \/ Flush
    \/ EndInput
    \/ Aclose
    \/ Anext

Spec == Init /\ [][Next]_vars

\* The consumer keeps pulling: a pull that can complete eventually does.
FairSpec == Spec /\ WF_vars(Anext)

\* The producer alone, pushing at most n characters: the events stay queued.
ProducerNext(n) ==
    \/ \E text \in Chunks(n) : PushText(text)
    \/ Flush
    \/ EndInput

ProducerSpec == Init /\ [][ProducerNext(MaxText)]_vars

LongSpec == Init /\ [][ProducerNext(MaxLong)]_vars

\* A producer whose tokenizer returns lists that mix the two token forms.
MixedInit ==
    /\ buf = <<>>
    /\ seg = 0
    /\ queue = <<>>
    /\ closed = FALSE
    /\ min_token_len \in 1..MaxMinTokenLen
    /\ min_ctx_len \in 1..MaxMinCtxLen
    /\ form \in MixedForms
    /\ call = Done("init", <<>>, FALSE, <<>>, <<>>)
    /\ emitted = <<>>
    /\ pushed = <<>>
    /\ flushed = FALSE
    /\ since = FALSE
    /\ received = <<>>
    /\ consumer = "running"

\* A push_text that failed after sending its event sends it again when it is
\* called again, so the number of events is unbounded: the producer stops
\* calling once MaxSent events are sent.
MixedNext == Len(emitted) < MaxSent /\ ProducerNext(MaxText)

MixedSpec == MixedInit /\ [][MixedNext]_vars

\* A producer whose tokenizer returns text that is not in the buffer.
MissInit ==
    /\ buf = <<>>
    /\ seg = 0
    /\ queue = <<>>
    /\ closed = FALSE
    /\ min_token_len \in 1..MaxMinTokenLen
    /\ min_ctx_len \in 1..MaxMinCtxLen
    /\ form = "upper"
    /\ call = Done("init", <<>>, FALSE, <<>>, <<>>)
    /\ emitted = <<>>
    /\ pushed = <<>>
    /\ flushed = FALSE
    /\ since = FALSE
    /\ received = <<>>
    /\ consumer = "running"

MissSpec == MissInit /\ [][ProducerNext(MaxText)]_vars

\* The concrete scenario: the text "ab cd ef" pushed in one chunk or in
\* successive chunks, then end_input, with min_token_len up to 4.
ScenarioText == <<"a", "b", " ", "c", "d", " ", "e", "f">>

ScenarioMinTokenLen == 4

ScenarioInit ==
    /\ buf = <<>>
    /\ seg = 0
    /\ queue = <<>>
    /\ closed = FALSE
    /\ min_token_len \in 1..ScenarioMinTokenLen
    /\ min_ctx_len \in 1..MaxMinCtxLen
    /\ form \in Forms
    /\ call = Done("init", <<>>, FALSE, <<>>, <<>>)
    /\ emitted = <<>>
    /\ pushed = <<>>
    /\ flushed = FALSE
    /\ since = FALSE
    /\ received = <<>>
    /\ consumer = "running"

\* The next chunks of the scenario's text: the non-empty prefixes of what is
\* not yet pushed.
ScenarioChunks ==
    {SubSeq(ScenarioText, Len(pushed) + 1, k) :
        k \in (Len(pushed) + 1)..Len(ScenarioText)}

ScenarioNext ==
    \/ \E text \in ScenarioChunks : PushText(text)
    \/ EndInput

ScenarioSpec == ScenarioInit /\ [][ScenarioNext]_vars

\* ------------------------------------------------------------------- claims
EventTexts == [i \in 1..Len(emitted) |-> emitted[i].ev.token]

\* The step is a call of producer operation op (the consumer's variables,
\* which every pull changes, stay as they are).
ProducerStep(op) == call'.op = op /\ UNCHANGED <<received, consumer>>

\* C1: when chunks of a text T that holds at least one word have been fed with
\* push_text and end_input has then been called (no flush in between), the
\* token texts of the emitted events, joined by single spaces, equal the tokens
\* of the batch tokenization of T joined by single spaces.  (A text of
\* whitespace alone is sent as it is by the flush of end_input, see C9.)
C1_Reassembly ==
    (call.op = "end_input" /\ call.result = "ok" /\ ~flushed
         /\ Tokenize(form, pushed) # <<>>)
        => JoinSp(EventTexts) = JoinSp(Texts(Tokenize(form, pushed)))

\* C2: after every emission of a push_text call whose last token carries
\* offsets, the retained buffer is the suffix of the string tokenized in that
\* call that starts at the end offset of that token.
C2_BufferAdvance ==
    (call.op = "push_text" /\ call.result = "ok")
        => \A i \in 1..Len(call.snaps) :
               call.snaps[i].last.tuple
                   => call.snaps[i].after = Drop(call.src, call.snaps[i].last.end)

\* C3: the events the consumer has received, followed by the events still
\* queued, are exactly the events the producer has sent, in the order sent
\* (so the received events are a prefix of them); and a producer call fails
\* only on a closed stream, however many events are queued.
C3_OrderedDelivery ==
    /\ received \o queue = Events(emitted)
    /\ call.result = "RuntimeError" => closed

\* C3 witness: the producer has run two events ahead of a consumer that has
\* already received one.
C3_Witness ==
    /\ Len(received) >= 1
    /\ Len(queue) >= 2
    /\ ~closed

\* C4: a pull signals end-of-sequence only when the stream is closed and every
\* sent event has been received; no pull completes while the stream is open
\* and the queue is empty; and once end_input has succeeded, the consumer
\* eventually has received every sent event and has stopped.
C4_ConsumerTermination ==
    /\ [][(consumer = "running" /\ consumer' = "stopped")
            => (closed /\ queue = <<>> /\ received = Events(emitted))]_vars
    /\ []((~closed /\ queue = <<>>) => ~ENABLED Anext)
    /\ (call.op = "end_input" /\ call.result = "ok")
           ~> (consumer = "stopped" /\ received = Events(emitted))

\* C4 witness: the consumer has stopped after receiving two events, the last
\* of them sent by the flush of end_input.
C4_Witness ==
    /\ consumer = "stopped"
    /\ call.op = "end_input" /\ call.result = "ok" /\ call.snaps # <<>>
    /\ Len(received) >= 2
    /\ received = Events(emitted)

\* C5: on a closed stream every push_text and every flush call fails with
\* RuntimeError and leaves the buffer, the segment id and the queue as they
\* were.
C5_ClosedRejection ==
    [][(closed /\ (ProducerStep("push_text") \/ ProducerStep("flush")))
         => (call'.result = "RuntimeError"
             /\ UNCHANGED <<buf, seg, queue, emitted, pushed, closed>>)]_vars

\* C5 witness: a push_text was rejected on a closed stream that still retains
\* text.
C5_Witness ==
    /\ closed
    /\ call.op = "push_text" /\ call.result = "RuntimeError"
    /\ buf # <<>>

\* C6: the events of a push_text call are built from consecutive tokens of its
\* tokenization that stop before the last token; a tokenization of one token or
\* none emits nothing.
C6_FinalTokenWithheld ==
    (call.op = "push_text" /\ call.tokenized)
        => /\ \A i \in 1..Len(call.snaps) :
                  LET from == IF i = 1 THEN 0 ELSE call.snaps[i - 1].upto
                      upto == call.snaps[i].upto
                  IN  /\ from < upto
                      /\ upto < Len(call.tokens)
                      /\ call.snaps[i].text
                             = JoinSp(Texts(SubSeq(call.tokens, from + 1, upto)))
           /\ Len(call.tokens) <= 1 => call.snaps = <<>>

\* C6 witness: a push_text emitted an event and withheld a last token that is
\* itself at least min_token_len long.
C6_Witness ==
    /\ call.op = "push_text" /\ call.snaps # <<>>
    /\ min_token_len = 2
    /\ Len(call.tokens[Len(call.tokens)].text) >= min_token_len

\* C7: every event sent by push_text has a token text of at least
\* min_token_len characters.
C7_MinLength ==
    \A i \in 1..Len(emitted) :
        emitted[i].by = "push_text" => Len(emitted[i].ev.token) >= min_token_len

\* C7 witness: with min_token_len = 2, push_text has sent an event and flush
\* has sent a shorter one.
C7_Witness ==
    /\ min_token_len = 2
    /\ \E i \in 1..Len(emitted) : emitted[i].by = "push_text"
    /\ \E i \in 1..Len(emitted) :
           emitted[i].by = "flush" /\ Len(emitted[i].ev.token) < min_token_len

\* A flush call completed between the sending of event i and of event j.
FlushBetween(i, j) == \E k \in (i + 1)..j : emitted[k].afterFlush

\* C8: two events carry the same segment_id exactly when no flush call was
\* completed between them (the event a flush sends precedes its completion).
C8_SegmentGrouping ==
    \A i, j \in 1..Len(emitted) :
        i < j => (FlushBetween(i, j)
                    <=> emitted[i].ev.segment_id # emitted[j].ev.segment_id)

\* s without its leading and trailing whitespace and with every inner run of
\* whitespace replaced by one space.
RECURSIVE Squeeze(_, _)
Squeeze(s, i) ==
    IF i > Len(s) THEN <<>>
    ELSE LET keep == \/ ~IsSpace(s[i])
                     \/ /\ i > 1
                        /\ ~IsSpace(s[i - 1])
                        /\ \E j \in (i + 1)..Len(s) : ~IsSpace(s[j])
         IN  (IF keep THEN <<s[i]>> ELSE <<>>) \o Squeeze(s, i + 1)

\* The token text a flush of buffer b is to send.
FlushExpected(b) ==
    IF \E i \in 1..Len(b) : ~IsSpace(b[i]) THEN Squeeze(b, 1) ELSE b

\* C9: flush (directly or through end_input) on an open stream with a
\* non-empty buffer sends exactly one event, with the current segment id and
\* all the words of the buffer separated by single spaces as its text, or the
\* buffer itself when it holds no word; the buffer is empty afterwards.
C9_FlushResult ==
    [][(~closed /\ buf # <<>>
            /\ (ProducerStep("flush") \/ ProducerStep("end_input")))
         => (/\ Events(emitted')
                    = Append(Events(emitted), TokenData(FlushExpected(buf), seg))
             /\ emitted'[Len(emitted')].by = "flush"
             /\ queue' = Append(queue, TokenData(FlushExpected(buf), seg))
             /\ buf' = <<>>)]_vars

\* C9 witness: with min_token_len = 2 and min_ctx_len = 2 a flush has sent the
\* one-character word of a buffer shorter than both thresholds.
C9_Witness ==
    /\ call.op = "flush" /\ call.result = "ok"
    /\ min_token_len = 2 /\ min_ctx_len = 2
    /\ Len(call.src) = 1 /\ Len(call.tokens) = 1
    /\ emitted[Len(emitted)].ev.token = call.src
    /\ buf = <<>>

\* C10: flush on an open stream with an empty buffer sends nothing and leaves
\* the buffer, the segment id, the queue and the open state as they are; and
\* every flush on an open stream leaves an open stream with an empty buffer,
\* so that a second flush changes nothing.
C10_IdempotentFlush ==
    /\ [][(~closed /\ buf = <<>> /\ ProducerStep("flush"))
            => UNCHANGED <<buf, seg, queue, emitted, closed>>]_vars
    /\ [][(~closed /\ ProducerStep("flush")) => (buf' = <<>> /\ ~closed')]_vars

\* C10 witness: a flush found the buffer empty on an open stream that had
\* already sent an event and rotated its segment id.
C10_Witness ==
    /\ call.op = "flush" /\ call.result = "ok" /\ call.src = <<>>
    /\ ~closed
    /\ emitted # <<>>
    /\ seg > 0

\* C11: aclose closes the stream and sends nothing, leaving the buffer, the
\* segment id and the queue as they are; once the stream is closed no event is
\* sent any more, so the retained text is never delivered; the consumer stops
\* only after receiving every event sent, in order; and after an aclose it
\* eventually has received them all and has stopped.
C11_CloseWithoutFlush ==
    /\ [][ProducerStep("aclose")
            => (closed' /\ UNCHANGED <<buf, seg, queue, emitted>>)]_vars
    /\ [][closed => (emitted' = emitted /\ buf' = buf)]_vars
    /\ [](consumer = "stopped" => received = Events(emitted))
    /\ (call.op = "aclose")
           ~> (consumer = "stopped" /\ received = Events(emitted))

\* C11 witness: after an aclose the consumer has received the events sent
\* before it and has stopped, while text is still retained in the buffer.
C11_Witness ==
    /\ call.op = "aclose"
    /\ consumer = "stopped"
    /\ Len(received) >= 1
    /\ buf # <<>>

\* The text argument of the push_text call that a step makes on an open stream.
PushedNow == Drop(pushed', Len(pushed))

\* C12: a push_text on an open stream that leaves the buffer shorter than
\* min_ctx_len does not tokenize and sends nothing; and every push_text that
\* sends nothing leaves the buffer as it was with the pushed text appended, and
\* the segment id, the queue and the open state as they were.
C12_PushWithoutEmission ==
    [][(~closed /\ ProducerStep("push_text"))
         => /\ Len(buf \o PushedNow) < min_ctx_len
                  => (~call'.tokenized /\ emitted' = emitted)
            /\ emitted' = emitted
                  => (buf' = buf \o PushedNow /\ UNCHANGED <<seg, queue, closed>>)]_vars

\* C12 witness: a push_text tokenized a buffer of two words and sent nothing,
\* the first word being shorter than min_token_len; the buffer retains both.
C12_Witness ==
    /\ call.op = "push_text" /\ call.result = "ok"
    /\ call.tokenized /\ Len(call.tokens) = 2 /\ call.snaps = <<>>
    /\ buf = call.src

\* The configuration of the concrete scenario.
ScenarioConfig == min_token_len = 4 /\ min_ctx_len = 1 /\ form = "bare"

\* C13: with a tokenizer that splits on whitespace and returns bare text,
\* min_token_len = 4 and min_ctx_len = 1, push_text("ab cd ef") sends one
\* event "ab cd" and retains "ef"; and once "ab cd ef" has been pushed (in one
\* chunk or in several) and end_input has been called, exactly the two events
\* "ab cd" and "ef" have been sent, both with the first segment id, and the
\* stream is closed.
C13_Scenario ==
    /\ [][(ScenarioConfig /\ pushed = <<>> /\ ProducerStep("push_text")
              /\ pushed' = ScenarioText)
            => (/\ Events(emitted')
                      = <<TokenData(<<"a", "b", " ", "c", "d">>, seg)>>
                /\ buf' = <<"e", "f">>
                /\ ~closed')]_vars
    /\ []((ScenarioConfig /\ pushed = ScenarioText
              /\ call.op = "end_input" /\ call.result = "ok")
            => (/\ Events(emitted)
                      = <<TokenData(<<"a", "b", " ", "c", "d">>, 0),
                          TokenData(<<"e", "f">>, 0)>>
                /\ closed))

\* C13 witness: the scenario has run to its end after a push that sent the
\* event "ab cd" alone.
C13_Witness ==
    /\ ScenarioConfig
    /\ pushed = ScenarioText
    /\ call.op = "end_input" /\ call.result = "ok" /\ closed
    /\ Len(emitted) = 2
    /\ emitted[1].by = "push_text" /\ emitted[2].by = "flush"

\* The token list mixes bare-text tokens and (text, start, end) tokens.
Mixed(tokens) ==
    /\ \E i \in 1..Len(tokens) : tokens[i].tuple
    /\ \E i \in 1..Len(tokens) : ~tokens[i].tuple

\* The tokens accumulated for the i-th emission of the push_text call c, and
\* the retained buffer just before that emission's advancement.
SnapToks(c, i) ==
    SubSeq(c.tokens, IF i = 1 THEN 1 ELSE c.snaps[i - 1].upto + 1, c.snaps[i].upto)

SnapBefore(c, i) == IF i = 1 THEN c.src ELSE c.snaps[i - 1].after

\* The events of the last call are the last events sent.
LastSent(n) == SubSeq(emitted, Len(emitted) - n + 1, Len(emitted))

\* C14 as stated: when the tokenizer's list mixes the two token forms,
\* push_text and flush complete without error, each event's text is the
\* texts of its tokens joined by spaces, and push_text advances by the end
\* offset when the last accumulated token carries offsets and by searching
\* for each token's text otherwise.
C14_MixedAccepted ==
    (call.tokenized /\ Mixed(call.tokens))
        => /\ call.result = "ok"
           /\ call.op = "push_text"
                 => \A i \in 1..Len(call.snaps) :
                       LET s == call.snaps[i]
                           g == SnapToks(call, i)
                       IN  /\ s.text = JoinSp(Texts(g))
                           /\ s.after =
                                 IF s.last.tuple
                                 THEN Drop(SnapBefore(call, i), s.last.end)
                                 ELSE Relocate(SnapBefore(call, i),
                                               [k \in 1..Len(g) |-> Bare(g[k])])
           /\ call.op \in {"flush", "end_input"}
                 => /\ emitted # <<>>
                    /\ emitted[Len(emitted)].ev.token = JoinSp(Texts(call.tokens))

\* C14, amended: when the tokenizer's list mixes the two token forms,
\* push_text builds each event's text from the text of every accumulated
\* token and sends it; it then advances by the end offset when the last
\* accumulated token carries offsets, by search when every accumulated token
\* is bare text, and otherwise (last token bare text, an offset-bearing token
\* among the accumulated ones) fails with a TypeError after the event was
\* sent.  flush completes only when the first token carries offsets, and its
\* event then takes the first character of each bare-text token; when the
\* first token is bare text flush fails with a TypeError, sends nothing and
\* leaves the buffer, the segment id and the open state as they were.
C14_MixedForms ==
    /\ []((call.tokenized /\ Mixed(call.tokens) /\ call.op = "push_text")
            => /\ \A i \in 1..Len(call.snaps) :
                     LET s == call.snaps[i]
                         g == SnapToks(call, i)
                     IN  /\ s.text = JoinSp(Texts(g))
                         /\ s.last.tuple
                               => s.after = Drop(SnapBefore(call, i), s.last.end)
                         /\ (~s.last.tuple /\ ~FindRaises(g))
                               => s.after = Relocate(SnapBefore(call, i), g)
                         /\ (~s.last.tuple /\ FindRaises(g))
                               => (call.result = "TypeError" /\ i = Len(call.snaps))
               /\ call.result = "TypeError"
                     => /\ call.snaps # <<>>
                        /\ ~call.snaps[Len(call.snaps)].last.tuple
                        /\ FindRaises(SnapToks(call, Len(call.snaps)))
               /\ Len(emitted) >= Len(call.snaps)
               /\ \A i \in 1..Len(call.snaps) :
                     LastSent(Len(call.snaps))[i].ev.token = call.snaps[i].text)
    /\ []((call.tokenized /\ Mixed(call.tokens)
              /\ call.op \in {"flush", "end_input"})
            => IF call.tokens[1].tuple
               THEN /\ call.result = "ok"
                    /\ buf = <<>>
                    /\ emitted # <<>>
                    /\ emitted[Len(emitted)].ev.token =
                          JoinSp([k \in 1..Len(call.tokens) |->
                                     IF call.tokens[k].tuple
                                     THEN call.tokens[k].text
                                     ELSE SubSeq(call.tokens[k].text, 1, 1)])
               ELSE /\ call.result = "TypeError"
                    /\ buf = call.src)
    /\ [][((ProducerStep("flush") \/ ProducerStep("end_input"))
              /\ call'.result = "TypeError")
            => UNCHANGED <<buf, seg, queue, emitted, closed>>]_vars

\* C14 witness: a push_text on a mixed list that sent its event and then failed
\* in the search for an offset-bearing token.
C14_Witness ==
    /\ call.op = "push_text" /\ call.result = "TypeError"
    /\ Mixed(call.tokens)
    /\ call.snaps # <<>>
    /\ queue # <<>>

\* The step is a flush, direct or through end_input, that sent an event.
FlushEmits ==
    /\ ProducerStep("flush") \/ ProducerStep("end_input")
    /\ call'.result = "ok"
    /\ emitted' # emitted

\* C15: the segment id changes exactly in a step that is a flush (direct or
\* through end_input) that sent an event; that event carries the old id and
\* the new id differs from it.  push_text, a flush on an empty buffer, aclose
\* and every failed call leave the segment id unchanged.
C15_SegmentRotation ==
    /\ [][(seg' # seg) <=> FlushEmits]_vars
    /\ [][FlushEmits
            => /\ emitted' = Append(emitted, emitted'[Len(emitted')])
               /\ emitted'[Len(emitted')].ev.segment_id = seg
               /\ emitted'[Len(emitted')].by = "flush"
               /\ queue'[Len(queue')].segment_id = seg
               /\ seg' # seg]_vars
    /\ [][(\/ ProducerStep("push_text")
           \/ ProducerStep("aclose")
           \/ call'.result # "ok"
           \/ ((ProducerStep("flush") \/ ProducerStep("end_input")) /\ buf = <<>>))
            => seg' = seg]_vars

\* C15 witness: the second flush that sent an event has rotated the id again,
\* and the events of the two segments carry the two earlier ids.
C15_Witness ==
    /\ call.op = "flush" /\ call.result = "ok" /\ call.snaps # <<>>
    /\ Len(emitted) = 2
    /\ emitted[1].ev.segment_id # emitted[2].ev.segment_id
    /\ seg \notin {emitted[1].ev.segment_id, emitted[2].ev.segment_id}

\* C16: with a tokenizer that splits on whitespace and returns bare text,
\* after every emission of a push_text call (the second and later ones
\* included) the retained buffer is the tokenized text from the start of the
\* first token not yet emitted: the emitted tokens and the whitespace around
\* them are gone from its front and it has no leading whitespace.  The call
\* leaves the buffer of its last emission.
C16_BareAdvance ==
    (form = "bare" /\ call.op = "push_text" /\ call.result = "ok"
         /\ call.tokenized)
        => /\ \A i \in 1..Len(call.snaps) :
                 LET words == SplitWords(call.src, 0)
                     s     == call.snaps[i]
                 IN  /\ s.upto < Len(words)
                     /\ s.after = Drop(call.src, words[s.upto + 1].start)
                     /\ s.after # <<>>
                     /\ ~IsSpace(s.after[1])
           /\ call.snaps # <<>> => buf = call.snaps[Len(call.snaps)].after

\* C16 witness: a push_text with bare-text tokens that emitted twice and
\* withheld the third token.
C16_Witness ==
    /\ form = "bare"
    /\ call.op = "push_text" /\ call.result = "ok"
    /\ Len(call.snaps) = 2
    /\ buf = call.snaps[2].after

\* The buffer b cut, for each token of toks in turn, by the length of the
\* token from position 0 and then stripped of leading whitespace.
RECURSIVE CutFromStart(_, _)
CutFromStart(b, toks) ==
    IF toks = <<>> THEN b
    ELSE CutFromStart(LStrip(Drop(b, Len(Head(toks).text))), Tail(toks))

\* C17: when push_text on an open stream emits with bare-text tokens whose
\* text does not occur in the retained buffer, the call completes; each miss counts as position
\* 0, so the buffer is cut by the token's length from its start and stripped
\* of leading whitespace, and the event sent carries the tokenizer's text.
C17_RelocationMiss ==
    (form = "upper" /\ call.op = "push_text" /\ call.result # "RuntimeError")
        => /\ call.result = "ok"
           /\ \A i \in 1..Len(call.snaps) :
                 LET s == call.snaps[i]
                     g == SnapToks(call, i)
                 IN  /\ \A k \in 1..Len(g) : Find(call.src, g[k].text) = -1
                     /\ s.after = CutFromStart(SnapBefore(call, i), g)
                     /\ s.text = JoinSp(Texts(g))
                     /\ LastSent(Len(call.snaps))[i].ev.token = s.text
           /\ call.snaps # <<>> => buf = call.snaps[Len(call.snaps)].after

\* C17 witness: a push_text whose emitted token was not found in a buffer
\* that starts with whitespace, so the cut at position 0 removed the
\* whitespace and left the word the token came from.
C17_Witness ==
    /\ form = "upper"
    /\ call.op = "push_text" /\ call.result = "ok"
    /\ Len(call.snaps) = 1
    /\ IsSpace(call.src[1])
    /\ buf = LStrip(call.src)
    /\ queue # <<>>

\* C18: the stream starts open; it becomes closed in a step exactly when that
\* step is an end_input or an aclose on the open stream; once closed it stays
\* closed under every later push_text, flush, end_input, aclose and pull; and
\* no event is sent while it is closed.
C18_OneWayLifecycle ==
    /\ ~closed
    /\ [][(closed' # closed)
            => /\ ~closed /\ closed'
               /\ ProducerStep("end_input") \/ ProducerStep("aclose")]_vars
    /\ [][(ProducerStep("end_input") \/ ProducerStep("aclose")) => closed']_vars
    /\ [][closed => (closed' /\ emitted' = emitted
                       /\ Len(queue') <= Len(queue))]_vars

\* C18 witness: the stream was closed, a push_text was made on it afterwards
\* and rejected, and the consumer has pulled every event and stopped.
C18_Witness ==
    /\ closed
    /\ call.op = "push_text" /\ call.result = "RuntimeError"
    /\ consumer = "stopped"
    /\ received # <<>> /\ received = Events(emitted)

\* C19: a push_text or flush that fails because the stream is closed leaves
\* the retained buffer, the segment id and the queue of undelivered events
\* (and the events sent, the closed state) as they were.
C19_RejectedUnchanged ==
    [][((ProducerStep("push_text") \/ ProducerStep("flush"))
           /\ call'.result = "RuntimeError")
         => (closed /\ UNCHANGED <<buf, seg, queue, emitted, closed>>)]_vars

\* C19 witness: a flush was rejected while text is retained and events are
\* still undelivered: the flush neither sent the text nor cleared it.
C19_Witness ==
    /\ call.op = "flush" /\ call.result = "RuntimeError"
    /\ buf # <<>>
    /\ queue # <<>>
    /\ seg = 0

\* C20: end_input on an open stream flushes (an event is sent exactly when
\* text is retained, and the buffer is left empty) and closes the stream;
\* end_input on a closed stream fails with the use-after-close error and
\* changes nothing, so an end_input succeeds only on a stream that is open,
\* which it closes for good: at most one succeeds.
C20_EndInputOnce ==
    /\ [][ProducerStep("end_input")
            => IF closed
               THEN /\ call'.result = "RuntimeError"
                    /\ UNCHANGED <<buf, seg, queue, emitted, closed>>
               ELSE /\ call'.result = "ok"
                    /\ closed'
                    /\ buf' = <<>>
                    /\ Len(emitted') = Len(emitted) + (IF buf # <<>> THEN 1 ELSE 0)]_vars
    /\ [][(ProducerStep("end_input") /\ call'.result = "ok" /\ call' # call)
            => (~closed /\ closed')]_vars
    /\ [][closed => closed']_vars

\* C20 witness: an end_input was rejected on a stream that aclose had closed
\* with text still retained.
C20_Witness ==
    /\ call.op = "end_input" /\ call.result = "RuntimeError"
    /\ closed
    /\ buf # <<>>

====
